---------------------------- MODULE Spec2Model ----------------------------
(***************************************************************************)
(* image_render (src/src/main.rs): a command-line program that decodes an *)
(* image, stretches it 3x horizontally, optionally fits it into a target  *)
(* size and writes every pixel as an ANSI truecolor background cell.       *)
(*                                                                         *)
(* Strings that the program inspects character by character (the --size   *)
(* value, the bytes written by write_image) are sequences of one-character *)
(* tokens.  "ESC" stands for the byte 0x1B and "U+0663" for the single     *)
(* character ARABIC-INDIC DIGIT THREE (a decimal digit for the regex      *)
(* crate's \d, not for u32::from_str).                                     *)
(*                                                                         *)
(* A u32 is a pair <<hi, lo>> of 16-bit limbs (value hi * 2^16 + lo), so   *)
(* that the full 32-bit range and its overflow are represented exactly.    *)
(***************************************************************************)
EXTENDS Integers, Sequences, FiniteSets, TLC

VARIABLES
    argv,       \* the command line: [filters, size, filter, input, output]
    pc,         \* position in main / write_image / the size functions
    valid,      \* result of validate_size: "unset", "Ok", "Err"
    size,       \* result of get_size: [tag, w, h], tag in unset/Some/None/Panic
    term,       \* answer of terminal_size::terminal_size() once queried
    filter,     \* result of get_filter(..).unwrap(): a FilterType or "unset"
    img,        \* the DynamicImage held by main: [w, h, px], or NoImg
    src,        \* dimensions of the image as decoded, or NoDims
    file,       \* the output path on disk: "untouched" or "truncated"
    sink,       \* the Write that write_image got: "none", "stdout", "file"
    out,        \* bytes written to the sink by write_image
    listing,    \* lines printed on stdout by the --filters listing
    errs,       \* lines printed on the error stream
    outcome,    \* how the run ended, "running" until then
    exit,       \* process exit status, -1 while running
    last_y,     \* write_image's local last_y
    it          \* number of pixels the img.pixels() iterator has yielded

vars == <<argv, pc, valid, size, term, filter, img, src, file, sink, out,
          listing, errs, outcome, exit, last_y, it>>

-----------------------------------------------------------------------------
(* Bounds of the model *)

\* largest width and height of the grids handed to write_image on their own
MaxW == 2
MaxH == 2
\* longest --size string enumerated over SizeAlphabet
MaxSizeLen == 4

-----------------------------------------------------------------------------
(* Characters and strings *)

AsciiDigits == <<"0", "1", "2", "3", "4", "5", "6", "7", "8", "9">>

UnicodeDigit == "U+0663"

RECURSIVE SeqRange(_)
SeqRange(s) == IF s = <<>> THEN {} ELSE {Head(s)} \cup SeqRange(Tail(s))

IsAsciiDigit(c) == c \in SeqRange(AsciiDigits)

\* the regex crate's \d is Unicode-aware: any character of category Nd
IsReDigit(c) == IsAsciiDigit(c) \/ c = UnicodeDigit

IsXx(c) == c \in {"x", "X"}

DigitVal(c) == (CHOOSE i \in 1..10 : AsciiDigits[i] = c) - 1

TERM == <<"t", "e", "r", "m">>

ORIGINAL == <<"o", "r", "i", "g", "i", "n", "a", "l">>

-----------------------------------------------------------------------------
(* u32 arithmetic on 16-bit limbs *)

Limb == 2 ^ 16

U32Of(n) == <<n \div Limb, n % Limb>>

IsSmall(v) == v[1] = 0

\* u32::checked_mul(10) followed by checked_add(d); ok is FALSE on overflow
MulAdd10(v, d) ==
    LET lo == v[2] * 10 + d
        hi == v[1] * 10 + (lo \div Limb)
    IN  IF hi >= Limb THEN [ok |-> FALSE, v |-> <<0, 0>>]
        ELSE [ok |-> TRUE, v |-> <<hi, lo % Limb>>]

\* <u32 as FromStr>::from_str: every character must be an ASCII digit, there
\* must be at least one, and the value must fit in 32 bits; else Err
RECURSIVE ParseFrom(_, _)
ParseFrom(acc, s) ==
    IF s = <<>> THEN [ok |-> TRUE, v |-> acc]
    ELSE IF ~IsAsciiDigit(Head(s)) THEN [ok |-> FALSE, v |-> <<0, 0>>]
    ELSE LET nxt == MulAdd10(acc, DigitVal(Head(s)))
         IN  IF ~nxt.ok THEN nxt ELSE ParseFrom(nxt.v, Tail(s))

parse_u32(s) ==
    IF s = <<>> THEN [ok |-> FALSE, v |-> <<0, 0>>] ELSE ParseFrom(<<0, 0>>, s)

-----------------------------------------------------------------------------
(* validate_size and get_size *)

\* a match of \d+[Xx]\d+ starts at position i of s
ExplicitAt(s, i) ==
    \E j \in (i + 1)..(Len(s) - 1) :
        /\ \A k \in i..(j - 1) : IsReDigit(s[k])
        /\ IsXx(s[j])
        /\ IsReDigit(s[j + 1])

\* Regex::is_match searches the whole string for a match: it is not anchored
is_match_explicit(s) == \E i \in 1..Len(s) : ExplicitAt(s, i)

Contains(s, lit) ==
    \E i \in 1..(Len(s) - Len(lit) + 1) : SubSeq(s, i, i + Len(lit) - 1) = lit

validate_size(s) ==
    IF is_match_explicit(s) \/ Contains(s, TERM) \/ Contains(s, ORIGINAL)
    THEN "Ok" ELSE "Err"

\* Regex::captures: the leftmost match, both \d+ greedy; groups 1 and 2
captures(s) ==
    LET start == CHOOSE i \in 1..Len(s) :
                    ExplicitAt(s, i) /\ \A k \in 1..(i - 1) : ~ExplicitAt(s, k)
        xpos  == CHOOSE j \in (start + 1)..(Len(s) - 1) :
                    IsXx(s[j]) /\ \A k \in start..(j - 1) : IsReDigit(s[k])
        stop  == CHOOSE e \in (xpos + 1)..Len(s) :
                    /\ \A k \in (xpos + 1)..e : IsReDigit(s[k])
                    /\ e = Len(s) \/ ~IsReDigit(s[e + 1])
    IN  <<SubSeq(s, start, xpos - 1), SubSeq(s, xpos + 1, stop)>>

NoTerminal == [some |-> FALSE, cols |-> 0, rows |-> 0]

\* answers of terminal_size::terminal_size(): None, or (Width(u16), Height(u16))
TerminalAnswers ==
    {NoTerminal, [some |-> TRUE, cols |-> 2, rows |-> 1],
                 [some |-> TRUE, cols |-> 3, rows |-> 2]}

SizeSome(w, h) == [tag |-> "Some", w |-> w, h |-> h]

SizeNone == [tag |-> "None", w |-> <<0, 0>>, h |-> <<0, 0>>]

SizePanic == [tag |-> "Panic", w |-> <<0, 0>>, h |-> <<0, 0>>]

SizeUnset == [tag |-> "unset", w |-> <<0, 0>>, h |-> <<0, 0>>]

\* let sz = terminal_size()?; Some((sz.0.0.into(), sz.1.0.into()))
FromTerminal(t) ==
    IF t.some THEN SizeSome(U32Of(t.cols), U32Of(t.rows)) ELSE SizeNone

\* get_size reaches a terminal_size() call on this string
QueriesTerminal(s) == s = TERM \/ (s # ORIGINAL /\ ~is_match_explicit(s))

get_size(s, t) ==
    IF s = TERM THEN FromTerminal(t)
    ELSE IF s = ORIGINAL THEN SizeNone
    ELSE IF is_match_explicit(s)
         THEN LET c == captures(s)
                  a == parse_u32(c[1])
                  b == parse_u32(c[2])
              IN  IF a.ok /\ b.ok THEN SizeSome(a.v, b.v) ELSE SizePanic
         ELSE FromTerminal(t)

-----------------------------------------------------------------------------
(* FILTERS and get_filter *)

FILTERS == <<"nearest", "triangle", "catmullrom", "gaussian", "lanczos3">>

get_filter_without_lanczos3(name) ==
    CASE name = "nearest"    -> "Nearest"
      [] name = "triangle"   -> "Triangle"
      [] name = "catmullrom" -> "CatmullRom"
      [] name = "gaussian"   -> "Gaussian"
      [] OTHER               -> "None"

\* Some(FilterType) by its variant name, or "None"
get_filter(name) ==
    CASE name = "nearest"    -> "Nearest"
      [] name = "triangle"   -> "Triangle"
      [] name = "catmullrom" -> "CatmullRom"
      [] name = "gaussian"   -> "Gaussian"
      [] name = "lanczos3"   -> "Lanczos3"
      [] OTHER               -> "None"

-----------------------------------------------------------------------------
(* Images and the bytes of a cell *)

\* Rgb channel triples the model draws pixel values from
Palette == {<<0, 10, 255>>, <<7, 99, 100>>}

NoImg == [w |-> <<0, 0>>, h |-> <<0, 0>>, px |-> <<>>]

NoDims == [some |-> FALSE, w |-> <<0, 0>>, h |-> <<0, 0>>]

\* pixel contents of a w x h image, px[y + 1][x + 1]; an image too large to
\* enumerate keeps its dimensions only
PixelsOf(w, h) ==
    IF IsSmall(w) /\ IsSmall(h)
    THEN [1..h[2] -> [1..w[2] -> Palette]]
    ELSE {<<>>}

\* number of items img.pixels() yields: every (x, y) with x < width, y < height
PixelCount(im) == im.w[2] * im.h[2]

\* the k-th item (k from 0) of img.pixels(): (x, y, Rgba) in row-major order
PixelAt(im, k) ==
    LET x == k % im.w[2]
        y == k \div im.w[2]
    IN  <<x, y, im.px[y + 1][x + 1]>>

\* Display of a u8: decimal, no sign, no padding
RECURSIVE Dec(_)
Dec(n) ==
    IF n < 10 THEN <<AsciiDigits[n + 1]>>
    ELSE Dec(n \div 10) \o <<AsciiDigits[(n % 10) + 1]>>

CellBytes_swapped_green_blue(color) ==
    <<"ESC", "[", "4", "8", ";", "2", ";">> \o Dec(color[1]) \o <<";">>
        \o Dec(color[3]) \o <<";">> \o Dec(color[2])
        \o <<"m", " ", "ESC", "[", "0", "m">>

\* format!("\x1b[48;2;{};{};{}m \x1b[0m", color[0], color[1], color[2])
CellBytes(color) ==
    <<"ESC", "[", "4", "8", ";", "2", ";">> \o Dec(color[1]) \o <<";">>
        \o Dec(color[2]) \o <<";">> \o Dec(color[3])
        \o <<"m", " ", "ESC", "[", "0", "m">>

-----------------------------------------------------------------------------
(* The image crate, as main uses it *)

\* image sizes image::open can return here; BigWidth is 1431655766, the
\* smallest width whose triple does not fit in a u32
BigWidth == <<21845, 21846>>

DecodedDims ==
    {<<U32Of(1), U32Of(1)>>, <<U32Of(1), U32Of(2)>>, <<BigWidth, U32Of(1)>>}

\* img.width() * 3 on u32: the wrapped product and whether it overflowed
Mul3(v) ==
    LET lo == v[2] * 3
        hi == v[1] * 3 + (lo \div Limb)
    IN  [overflow |-> hi >= Limb, v |-> <<hi % Limb, lo % Limb>>]

\* dimensions DynamicImage::resize(W, H, _) may give a w x h image: inside
\* the W x H box, one side equal to the box's, the other scaled in
\* proportion and rounded down or up (all four numbers below 2^16 here)
FitDims(w, h, W, H) ==
    {d \in (0..W[2]) \X (0..H[2]) :
        \/ /\ d[1] = W[2]
           /\ d[2] \in {(h[2] * W[2]) \div w[2],
                        (h[2] * W[2] + w[2] - 1) \div w[2]}
        \/ /\ d[2] = H[2]
           /\ d[1] \in {(w[2] * H[2]) \div h[2],
                        (w[2] * H[2] + h[2] - 1) \div h[2]}}

-----------------------------------------------------------------------------
(* The command line *)

AbsentSize == <<"<absent>">>

Absent == "<absent>"

\* --size values given to the whole program
DriverSizes ==
    {TERM, ORIGINAL, <<"2", "x", "1">>, <<"1", "X", "2">>, <<"a", "b", "c">>,
     <<"x", "t", "e", "r", "m">>,
     <<"4", "2", "9", "4", "9", "6", "7", "2", "9", "6", "x", "1">>}

DriverFilters == SeqRange(FILTERS) \cup {"bogus", "Nearest"}

ArgSet ==
    [filters : BOOLEAN,
     size    : {AbsentSize} \cup DriverSizes,
     filter  : {Absent} \cup DriverFilters,
     input   : {Absent, "in.img"},
     output  : {Absent, "-", "out.txt"}]

\* matches.value_of(..) with the default_value of each argument
SizeValue == IF argv.size = AbsentSize THEN TERM ELSE argv.size

FilterValue == IF argv.filter = Absent THEN "nearest" ELSE argv.filter

OutputValue == IF argv.output = Absent THEN "-" ELSE argv.output

\* clap refuses the command line inside get_matches
ClapRejects ==
    \/ /\ ~argv.filters
       /\ argv.size = AbsentSize /\ argv.filter = Absent
       /\ argv.input = Absent /\ argv.output = Absent
    \/ argv.size # AbsentSize /\ validate_size(argv.size) = "Err"
    \/ argv.filter # Absent /\ argv.filter \notin SeqRange(FILTERS)
    \/ argv.input = Absent /\ ~argv.filters

-----------------------------------------------------------------------------
(* main *)

Init ==
    /\ argv \in {a \in ArgSet : a.output # Absent => a.input # Absent}
    /\ pc = "start"
    /\ valid = "unset"
    /\ size = SizeUnset
    /\ term = NoTerminal
    /\ filter = "unset"
    /\ img = NoImg
    /\ src = NoDims
    /\ file = "untouched"
    /\ sink = "none"
    /\ out = <<>>
    /\ listing = <<>>
    /\ errs = <<>>
    /\ outcome = "running"
    /\ exit = -1
    /\ last_y = 0
    /\ it = 0

\* the process ends: how, with which status, and what it printed on stderr
Ends(how, status, message) ==
    /\ pc' = "exited"
    /\ outcome' = how
    /\ exit' = status
    /\ errs' = IF message = "" THEN errs ELSE Append(errs, message)

\* a panic: message on stderr, exit status 101
Panics(how) == Ends(how, 101, "panicked")

\* err_and_return!(e): eprintln!("{}", e); return;  -- main returns ()
ErrAndReturn(how, message) == Ends(how, 0, message)

\* get_matches() refuses the command line: clap prints the error and exits 1
ClapError ==
    /\ pc = "start"
    /\ ClapRejects
    /\ valid' = IF argv.size # AbsentSize THEN validate_size(argv.size) ELSE valid
    /\ Ends("usage_error", 1, "clap error")
    /\ UNCHANGED <<argv, size, term, filter, img, src, file, sink, out,
                   listing, last_y, it>>

\* get_matches() returns the matches
GetMatches ==
    /\ pc = "start"
    /\ ~ClapRejects
    /\ valid' = IF argv.size # AbsentSize THEN validate_size(argv.size) ELSE valid
    /\ pc' = "parsed"
    /\ UNCHANGED <<argv, size, term, filter, img, src, file, sink, out,
                   listing, errs, outcome, exit, last_y, it>>

\* if matches.is_present("filters") { println! each of FILTERS; return }
ListFilters ==
    /\ pc = "parsed"
    /\ argv.filters
    /\ listing' = listing \o FILTERS
    /\ Ends("listed", 0, "")
    /\ UNCHANGED <<argv, valid, size, term, filter, img, src, file, sink, out,
                   last_y, it>>

\* DecodeErr had main opened the output path before decoding the input
DecodeErr_output_opened_first ==
    /\ pc = "parsed"
    /\ ~argv.filters
    /\ IF OutputValue = "-"
       THEN sink' = "stdout" /\ UNCHANGED file
       ELSE sink' = "file" /\ file' = "truncated"
    /\ ErrAndReturn("decode_error", "decode error")
    /\ UNCHANGED <<argv, valid, size, term, filter, img, src, out, listing,
                   last_y, it>>

\* image::open(input) is Err(e): err_and_return!(e)
DecodeErr ==
    /\ pc = "parsed"
    /\ ~argv.filters
    /\ ErrAndReturn("decode_error", "decode error")
    /\ UNCHANGED <<argv, valid, size, term, filter, img, src, file, sink, out,
                   listing, last_y, it>>

\* image::open(input) is Ok(img)
DecodeOk ==
    /\ pc = "parsed"
    /\ ~argv.filters
    /\ \E d \in DecodedDims : \E p \in PixelsOf(d[1], d[2]) :
          /\ img' = [w |-> d[1], h |-> d[2], px |-> p]
          /\ src' = [some |-> TRUE, w |-> d[1], h |-> d[2]]
    /\ pc' = "decoded"
    /\ UNCHANGED <<argv, valid, size, term, filter, file, sink, out, listing,
                   errs, outcome, exit, last_y, it>>

\* let filter = get_filter(matches.value_of("filter").unwrap()).unwrap();
GetFilter ==
    /\ pc = "decoded"
    /\ LET f == get_filter(FilterValue)
       IN  IF f = "None"
           THEN /\ Panics("panic_filter")
                /\ UNCHANGED filter
           ELSE /\ filter' = f
                /\ pc' = "filtered"
                /\ UNCHANGED <<errs, outcome, exit>>
    /\ UNCHANGED <<argv, valid, size, term, img, src, file, sink, out, listing,
                   last_y, it>>

\* img = img.resize_exact(img.width() * 3, img.height(), filter);
\* the product overflows u32: a panic with overflow checks (debug profile),
\* the wrapped value without them (release profile)
Stretch ==
    /\ pc = "filtered"
    /\ LET m == Mul3(img.w)
       IN  \/ /\ m.overflow
              /\ Panics("panic_overflow")
              /\ UNCHANGED img
           \/ /\ \E p \in PixelsOf(m.v, img.h) :
                    img' = [w |-> m.v, h |-> img.h, px |-> p]
              /\ pc' = "stretched"
              /\ UNCHANGED <<errs, outcome, exit>>
    /\ UNCHANGED <<argv, valid, size, term, filter, src, file, sink, out,
                   listing, last_y, it>>

\* if let Some(size) = get_size(..) { img = img.resize(size.0, size.1, filter) }
Fit ==
    /\ pc = "stretched"
    /\ \E t \in TerminalAnswers :
          LET s == get_size(SizeValue, t)
          IN  /\ size' = s
              /\ term' = IF QueriesTerminal(SizeValue) THEN t ELSE term
              /\ CASE s.tag = "Panic" ->
                        /\ Panics("panic_size")
                        /\ UNCHANGED img
                   [] s.tag = "None" ->
                        /\ pc' = "fitted"
                        /\ UNCHANGED <<img, errs, outcome, exit>>
                   [] OTHER ->
                        /\ \E d \in FitDims(img.w, img.h, s.w, s.h) :
                           \E p \in PixelsOf(U32Of(d[1]), U32Of(d[2])) :
                              img' = [w |-> U32Of(d[1]), h |-> U32Of(d[2]),
                                      px |-> p]
                        /\ pc' = "fitted"
                        /\ UNCHANGED <<errs, outcome, exit>>
    /\ UNCHANGED <<argv, valid, filter, src, file, sink, out, listing,
                   last_y, it>>

\* match matches.value_of("output"): "-" is stdout; a path is opened with
\* write, create, truncate before write_image is called; write_image starts
\* with last_y = 0 and a fresh img.pixels()
OpenOk ==
    /\ pc = "fitted"
    /\ IF OutputValue = "-"
       THEN sink' = "stdout" /\ UNCHANGED file
       ELSE sink' = "file" /\ file' = "truncated"
    /\ last_y' = 0
    /\ it' = 0
    /\ pc' = "loop"
    /\ UNCHANGED <<argv, valid, size, term, filter, img, src, out, listing,
                   errs, outcome, exit>>

\* File::with_options()...open(output) is Err(e): err_and_return!(e)
OpenErr ==
    /\ pc = "fitted"
    /\ OutputValue # "-"
    /\ ErrAndReturn("open_error", "open error")
    /\ UNCHANGED <<argv, valid, size, term, filter, img, src, file, sink, out,
                   listing, last_y, it>>

-----------------------------------------------------------------------------
(* write_image *)

\* WritePixel without the assignment last_y = pixel.1
WritePixel_last_y_not_updated ==
    /\ pc = "loop"
    /\ it < PixelCount(img)
    /\ LET pixel == PixelAt(img, it)
           nl    == IF pixel[2] # last_y THEN <<"\n">> ELSE <<>>
       IN  out' = out \o nl \o CellBytes(pixel[3])
    /\ it' = it + 1
    /\ UNCHANGED <<argv, pc, valid, size, term, filter, img, src, file, sink,
                   listing, errs, outcome, exit, last_y>>

\* one iteration of `for pixel in img.pixels()`
WritePixel ==
    /\ pc = "loop"
    /\ it < PixelCount(img)
    /\ LET pixel == PixelAt(img, it)
           nl    == IF pixel[2] # last_y THEN <<"\n">> ELSE <<>>
       IN  /\ last_y' = IF pixel[2] # last_y THEN pixel[2] ELSE last_y
           /\ out' = out \o nl \o CellBytes(pixel[3])
    /\ it' = it + 1
    /\ UNCHANGED <<argv, pc, valid, size, term, filter, img, src, file, sink,
                   listing, errs, outcome, exit>>

\* the iterator is exhausted: out.write_all(b"\n"), write_image and main return
WriteEnd ==
    /\ pc = "loop"
    /\ it = PixelCount(img)
    /\ out' = Append(out, "\n")
    /\ Ends("ok", 0, "")
    /\ UNCHANGED <<argv, valid, size, term, filter, img, src, file, sink,
                   listing, last_y, it>>

\* a write_all(..) returns Err: unwrap() panics
WriteError ==
    /\ pc = "loop"
    /\ Panics("panic_write")
    /\ UNCHANGED <<argv, valid, size, term, filter, img, src, file, sink, out,
                   listing, last_y, it>>

Next ==
    \/ ClapError
    \/ GetMatches
    \/ ListFilters
    \/ DecodeErr
    \/ DecodeOk
    \/ GetFilter
    \/ Stretch
    \/ Fit
    \/ OpenOk
    \/ OpenErr
    \/ WritePixel
    \/ WriteEnd
    \/ WriteError

Spec == Init /\ [][Next]_vars

-----------------------------------------------------------------------------
(* validate_size and get_size on their own, over many --size strings *)

SizeAlphabet == {"0", "7", "x", "X", "m"}

NamedSizes ==
    {TERM, ORIGINAL,
     <<"x", "t", "e", "r", "m">>,
     <<"t", "e", "r", "m", "i", "n", "a", "l">>,
     <<"o", "r", "i", "g", "i", "n", "a", "l", "2">>,
     <<"1", "2", "X", "0", "3", "4">>,
     <<"a", "1", "2", "x", "3", "b">>,
     <<"1", "x", "2", "x", "3">>,
     <<"6", "5", "5", "3", "6", "x", "6", "5", "5", "3", "5">>,
     <<"4", "2", "9", "4", "9", "6", "7", "2", "9", "5", "x", "1">>,
     <<"4", "2", "9", "4", "9", "6", "7", "2", "9", "6", "x", "1">>,
     <<"1", "x", "9", "9", "9", "9", "9", "9", "9", "9", "9", "9", "9">>,
     <<UnicodeDigit, "x", "1">>}

SizeInputs ==
    NamedSizes \cup UNION {[1..n -> SizeAlphabet] : n \in 0..MaxSizeLen}

InitSize ==
    /\ argv \in [filters : {FALSE}, size : SizeInputs, filter : {Absent},
                 input : {"in.img"}, output : {Absent}]
    /\ pc = "sz_validate"
    /\ valid = "unset"
    /\ size = SizeUnset
    /\ term = NoTerminal
    /\ filter = "unset"
    /\ img = NoImg
    /\ src = NoDims
    /\ file = "untouched"
    /\ sink = "none"
    /\ out = <<>>
    /\ listing = <<>>
    /\ errs = <<>>
    /\ outcome = "running"
    /\ exit = -1
    /\ last_y = 0
    /\ it = 0

\* a call validate_size(size)
SzValidate ==
    /\ pc = "sz_validate"
    /\ valid' = validate_size(argv.size)
    /\ pc' = "sz_resolve"
    /\ UNCHANGED <<argv, size, term, filter, img, src, file, sink, out,
                   listing, errs, outcome, exit, last_y, it>>

\* a call get_size(size)
SzResolve ==
    /\ pc = "sz_resolve"
    /\ \E t \in TerminalAnswers :
          /\ size' = get_size(argv.size, t)
          /\ term' = IF QueriesTerminal(argv.size) THEN t ELSE term
    /\ pc' = "sz_done"
    /\ UNCHANGED <<argv, valid, filter, img, src, file, sink, out, listing,
                   errs, outcome, exit, last_y, it>>

NextSize == SzValidate \/ SzResolve

SpecSize == InitSize /\ [][NextSize]_vars

-----------------------------------------------------------------------------
(* write_image on its own, over every grid up to MaxW x MaxH *)

InitEnc ==
    /\ argv \in [filters : {FALSE}, size : {AbsentSize}, filter : {Absent},
                 input : {"in.img"}, output : {Absent}]
    /\ pc = "loop"
    /\ valid = "unset"
    /\ size = SizeUnset
    /\ term = NoTerminal
    /\ filter = "unset"
    /\ \E W \in 0..MaxW : \E H \in 0..MaxH :
       \E p \in PixelsOf(U32Of(W), U32Of(H)) :
          img = [w |-> U32Of(W), h |-> U32Of(H), px |-> p]
    /\ src = NoDims
    /\ file = "untouched"
    /\ sink = "stdout"
    /\ out = <<>>
    /\ listing = <<>>
    /\ errs = <<>>
    /\ outcome = "running"
    /\ exit = -1
    /\ last_y = 0
    /\ it = 0

NextEnc == WritePixel \/ WriteEnd \/ WriteError

SpecEnc == InitEnc /\ [][NextEnc]_vars

-----------------------------------------------------------------------------
(* Properties *)

\* number of occurrences of the byte c in s
Count(s, c) == Cardinality({i \in 1..Len(s) : s[i] = c})

Digit(d) == AsciiDigits[d + 1]

\* a channel value 0..255 in decimal without leading zeros
Decimal(n) ==
    IF n >= 100 THEN <<Digit(n \div 100), Digit((n \div 10) % 10), Digit(n % 10)>>
    ELSE IF n >= 10 THEN <<Digit(n \div 10), Digit(n % 10)>>
    ELSE <<Digit(n)>>

\* ESC[48;2;R;G;Bm, one space, ESC[0m
ExpectedCell(c) ==
    <<"ESC", "[", "4", "8", ";", "2", ";">> \o Decimal(c[1]) \o <<";">>
        \o Decimal(c[2]) \o <<";">> \o Decimal(c[3]) \o <<"m">>
        \o <<" ">> \o <<"ESC", "[", "0", "m">>

RECURSIVE ExpectedRow(_)
ExpectedRow(row) ==
    IF row = <<>> THEN <<>> ELSE ExpectedCell(Head(row)) \o ExpectedRow(Tail(row))

\* the rows in order, one newline between consecutive rows
RECURSIVE ExpectedRows(_)
ExpectedRows(rows) ==
    IF Len(rows) = 1 THEN ExpectedRow(rows[1])
    ELSE ExpectedRow(Head(rows)) \o <<"\n">> \o ExpectedRows(Tail(rows))

Returned == pc = "exited" /\ outcome = "ok"

\* C1: for every grid of width W >= 1 and height H >= 1, when write_image
\* has returned the sink holds exactly the cells of row 0, a newline, the
\* cells of row 1, ..., the cells of row H-1 and one trailing newline: W*H
\* cells, H newlines, none inside a row.
C1_ExactStream ==
    (Returned /\ img.w[2] >= 1 /\ img.h[2] >= 1) =>
        /\ out = ExpectedRows(img.px) \o <<"\n">>
        /\ Count(out, " ") = img.w[2] * img.h[2]
        /\ Count(out, "\n") = img.h[2]

C1_Witness ==
    /\ Returned
    /\ img.w[2] = 2 /\ img.h[2] = 2
    /\ img.px[1][1] # img.px[2][2]
    /\ Len(out) > 2

\* a whole string WIDTHxHEIGHT: decimal digits, x or X, decimal digits
WholeExplicit(s) ==
    \E j \in 2..(Len(s) - 1) :
        /\ IsXx(s[j])
        /\ \A k \in 1..Len(s) : k # j => IsAsciiDigit(s[k])

\* C2: validate_size accepts a string only if the whole string is
\* WIDTHxHEIGHT, or is exactly "term", or is exactly "original".
C2_AcceptsOnlyWholeStrings ==
    valid = "Ok" =>
        WholeExplicit(argv.size) \/ argv.size = TERM \/ argv.size = ORIGINAL

\* C3: for every string validate_size accepts, get_size completes without
\* a panic: it returns a pair or no-resize.
C3_GetSizeNeverFails ==
    (pc = "sz_done" /\ valid = "Ok") => size.tag \in {"Some", "None"}

\* what the terminal query leads to: its (columns, rows), or no-resize
TerminalSize == FromTerminal(term)

\* C4: get_size maps <digits>x<digits> and <digits>X<digits> to the pair
\* (first number, second number), exactly "original" to no-resize, and
\* exactly "term" or a string without the explicit pattern to the terminal's
\* (columns, rows), or to no-resize when the terminal does not answer.
C4_Mapping ==
    pc = "sz_done" =>
        /\ WholeExplicit(argv.size) =>
              LET c == captures(argv.size)
              IN  /\ size.tag = "Some"
                  /\ size.w = ParseFrom(<<0, 0>>, c[1]).v
                  /\ size.h = ParseFrom(<<0, 0>>, c[2]).v
        /\ argv.size = ORIGINAL => size = SizeNone
        /\ (argv.size = TERM
               \/ (~is_match_explicit(argv.size) /\ argv.size # ORIGINAL))
              => size = TerminalSize

\* C5: when decoding the input or opening the output file fails, no image
\* byte has been written to the sink; on a decode failure the output file
\* has moreover not been opened (neither created nor truncated).
C5_NothingWrittenOnFailure ==
    /\ outcome \in {"decode_error", "open_error"} => out = <<>>
    /\ outcome = "decode_error" => file = "untouched" /\ sink = "none"

C5_Witness ==
    /\ pc = "exited"
    /\ outcome = "decode_error"
    /\ OutputValue = "out.txt"
    /\ errs # <<>>

\* C6: a run that ends in a decode failure or an output-open failure has
\* printed the error and exits with a non-zero status; status 0 is reached
\* only after the complete output or after the --filters listing.
C6_NonZeroExitOnError ==
    /\ outcome \in {"decode_error", "open_error"} => errs # <<>> /\ exit # 0
    /\ exit = 0 => outcome \in {"ok", "listed"}

\* C7: whenever --filters is given the run prints exactly the five filter
\* names in order and exits successfully without decoding or writing
\* anything, whatever the other arguments are.
C7_FiltersAlwaysLists ==
    argv.filters =>
        /\ pc \in {"start", "parsed", "exited"}
        /\ pc = "exited" =>
              /\ listing = <<"nearest", "triangle", "catmullrom", "gaussian",
                             "lanczos3">>
              /\ exit = 0
              /\ src = NoDims
              /\ out = <<>>

\* r is three times v, exactly
IsTriple(r, v) ==
    LET lo == v[2] * 3
    IN  r[2] = lo % Limb /\ r[1] = v[1] * 3 + (lo \div Limb)

\* C8: every run that decodes an image of (w0, h0) stretches it to
\* (w0 * 3, h0); with no-resize that is the final image, with an explicit
\* (W, H) the final image fits in W x H and keeps the ratio of (w0 * 3, h0)
\* up to rounding.
C8_DimensionLaw ==
    /\ outcome # "panic_overflow"
    /\ pc = "stretched" => IsTriple(img.w, src.w) /\ img.h = src.h
    /\ pc = "fitted" =>
          IF size.tag = "None"
          THEN IsTriple(img.w, src.w) /\ img.h = src.h
          ELSE /\ IsSmall(src.w)
               /\ <<img.w[2], img.h[2]>> \in
                     FitDims(U32Of(3 * src.w[2]), src.h, size.w, size.h)

\* C9: get_filter resolves the five names of FILTERS to five different
\* filter types and every other string to nothing; for every --filter value
\* the command line accepts, the lookup in main succeeds.
C9_FilterLookup ==
    /\ \A i, j \in 1..Len(FILTERS) :
          i # j => get_filter(FILTERS[i]) # get_filter(FILTERS[j])
    /\ get_filter(FilterValue) # "None" <=> FilterValue \in SeqRange(FILTERS)
    /\ outcome # "panic_filter"
    /\ pc \in {"filtered", "stretched", "fitted", "loop"} =>
          filter = get_filter(FilterValue) /\ filter # "None"

C9_Witness ==
    /\ pc = "filtered"
    /\ argv.filter = "lanczos3"
    /\ filter = "Lanczos3"

\* C10: in write_image's loop, after each processed pixel last_y is that
\* pixel's row, the newlines written so far number last_y and the cells
\* written number the pixels processed; last_y never decreases; at the end
\* one more newline is written, so a grid without pixels gives exactly one
\* newline and no cell.
C10_LoopInvariant ==
    /\ [](pc = "loop" =>
            /\ Count(out, " ") = it
            /\ it >= 1 => /\ last_y = PixelAt(img, it - 1)[2]
                          /\ Count(out, "\n") = last_y)
    /\ [](Returned =>
            /\ Count(out, "\n") = last_y + 1
            /\ Count(out, " ") = PixelCount(img)
            /\ PixelCount(img) = 0 => out = <<"\n">>)
    /\ [][last_y' >= last_y]_vars

C10_Witness ==
    /\ pc = "loop"
    /\ img.w[2] = 2 /\ img.h[2] = 2
    /\ it = 3
    /\ last_y = 1

=============================================================================
